---- MODULE Spec2Model ----
(***************************************************************************)
(* Price-Watcher (src/api/index.ts): the product store, the manual check,  *)
(* the removal, the two batch sweeps (the node-cron callback and           *)
(* GET /api/cron/check) and the price-drop notification.                   *)
(*                                                                         *)
(* Every handler is an async function: it runs atomically between two      *)
(* awaits; each action below is one such stretch, ending where the handler *)
(* awaits the next fetch, database call or mail dispatch.                  *)
(***************************************************************************)
EXTENDS Integers, Sequences, FiniteSets, TLC

\* ------------------------------------------------------------------ bounds
MaxProducts == 2      \* product rows in a run: the one tracked at the start, and added ones
MaxPrice == 2         \* positive prices a page can show: 1..MaxPrice
MaxOps == 2           \* handler invocations (requests, timer firings) per run
MaxFetches == 2       \* requests scrapeProductData makes, one after the other
MaxSeconds == 10      \* seconds a request is followed for

\* --------------------------------------------------------------- constants
ProductIds == 1..MaxProducts
Users == {"u1", "u2"}
Sweeps == {"timer", "api"}
Currencies == {"₺", "$"}
NoRow == [exists |-> FALSE, currentPrice |-> 0, currency |-> "", userId |-> ""]

\* user.notificationEmail: u1 has set one in the settings, u2 has not.
notificationEmail == [u \in Users |-> IF u = "u1" THEN "u1@mail" ELSE ""]

VARIABLES
    products,   \* Product table: id -> row (exists = FALSE: no such row)
    history,    \* PriceHistory table: product id -> its samples' prices, oldest first
    nextId,     \* the Product table's autoincrement
    sweep,      \* the two batch sweeps: "timer" (cron.schedule) and "api" (GET /api/cron/check)
    mc,         \* POST /api/products/:id/check in flight
    dl,         \* DELETE /api/products/:id in flight
    ops,        \* handler invocations so far
    lastFetch,  \* per product: whose fetch of its price returned last, and whether
                \* that price was written (the order of the awaits, for the claims)
    fetch,      \* scrapeProductData's request: its stage, its abort timer, the time
    page,       \* the markup scrapeProductData was given
    scraped     \* what scrapeProductData returned for it

storeVars == <<products, history, nextId, sweep, mc, dl, ops, lastFetch>>
scrapeVars == <<page, scraped>>
vars == <<products, history, nextId, sweep, mc, dl, ops, lastFetch, fetch, page, scraped>>

\* ------------------------------------------------- the fetch (lines 185-205)
Deadline == 8         \* setTimeout(() => controller.abort(), 8000), in seconds

NoFetch == [n |-> 0, stage |-> "idle", timer |-> "none", elapsed |-> 0, error |-> "none"]
NoPage == [url |-> "none"]
NotScraped == [success |-> FALSE, error |-> "not run"]

InFlight == fetch.stage \in {"connecting", "body"}

\* new AbortController(); setTimeout(abort, 8000); fetch(url, {signal, headers})
FetchStart ==
    /\ ~InFlight
    /\ fetch.n < MaxFetches
    /\ fetch' = [n |-> fetch.n + 1, stage |-> "connecting", timer |-> "armed",
                 elapsed |-> 0, error |-> "none"]
    /\ UNCHANGED <<storeVars, scrapeVars>>

\* A second passes; an armed timer fires at its time, not later.
Tick ==
    /\ InFlight \/ fetch.timer = "armed"
    /\ fetch.elapsed < MaxSeconds
    /\ ~(fetch.timer = "armed" /\ fetch.elapsed = Deadline)
    /\ fetch' = [fetch EXCEPT !.elapsed = fetch.elapsed + 1]
    /\ UNCHANGED <<storeVars, scrapeVars>>

\* The timer's callback: controller.abort() rejects the pending request, which
\* the catch turns into {success: false}.
TimerFires ==
    /\ fetch.timer = "armed"
    /\ fetch.elapsed = Deadline
    /\ fetch' = IF InFlight
                THEN [fetch EXCEPT !.timer = "fired", !.stage = "failed", !.error = "timeout"]
                ELSE [fetch EXCEPT !.timer = "fired"]
    /\ UNCHANGED <<storeVars, scrapeVars>>

\* await fetch(...) resolves with the response's status and headers:
\* clearTimeout(timeoutId); a status that is not 2xx throws.
Headers(ok) ==
    /\ fetch.stage = "connecting"
    /\ fetch' = IF ok
                THEN [fetch EXCEPT !.timer = "cleared", !.stage = "body"]
                ELSE [fetch EXCEPT !.timer = "cleared", !.stage = "failed", !.error = "status"]
    /\ UNCHANGED <<storeVars, scrapeVars>>

\* The connection breaks: fetch(...) or response.text() rejects.
NetworkError ==
    /\ InFlight
    /\ fetch' = [fetch EXCEPT !.stage = "failed", !.error = "network"]
    /\ UNCHANGED <<storeVars, scrapeVars>>

\* await response.text() resolves with the markup.
Body ==
    /\ fetch.stage = "body"
    /\ fetch' = [fetch EXCEPT !.stage = "done"]
    /\ UNCHANGED <<storeVars, scrapeVars>>

FetchNext ==
    \/ FetchStart
    \/ Tick
    \/ TimerFires
    \/ \E ok \in BOOLEAN : Headers(ok)
    \/ NetworkError
    \/ Body

\* ------------------------------------- texts and numbers (JavaScript)
\* A text is a sequence of characters. A number is kept in thousandths (the
\* markup modelled has at most three decimals), or is NaN.
Num(milli) == [nan |-> FALSE, milli |-> milli]
NaN == [nan |-> TRUE, milli |-> 0]
Positive(x) == ~x.nan /\ x.milli > 0        \* x > 0
IsZero(x) == ~x.nan /\ x.milli = 0          \* x === 0

DigitChars == <<"0", "1", "2", "3", "4", "5", "6", "7", "8", "9">>
IsDigit(c) == \E i \in 1..Len(DigitChars) : DigitChars[i] = c
DigitVal(c) == (CHOOSE i \in 1..Len(DigitChars) : DigitChars[i] = c) - 1

RECURSIVE DigitsValue(_)
DigitsValue(d) ==
    IF d = <<>> THEN 0
    ELSE DigitsValue(SubSeq(d, 1, Len(d) - 1)) * 10 + DigitVal(d[Len(d)])

RECURSIVE LeadingDigits(_)
LeadingDigits(t) ==
    IF t # <<>> /\ IsDigit(Head(t)) THEN <<Head(t)>> \o LeadingDigits(Tail(t)) ELSE <<>>

RECURSIVE SkipSpaces(_)
SkipSpaces(t) == IF t # <<>> /\ Head(t) = " " THEN SkipSpaces(Tail(t)) ELSE t

Reverse(t) == [i \in 1..Len(t) |-> t[Len(t) + 1 - i]]

\* String.prototype.trim
Trim(t) == Reverse(SkipSpaces(Reverse(SkipSpaces(t))))

\* parseFloat: leading blanks, a sign, digits, a period and digits; what
\* follows is ignored; NaN when no digit was read.
parseFloat(text) ==
    LET t0 == SkipSpaces(text)
        neg == t0 # <<>> /\ Head(t0) = "-"
        t1 == IF t0 # <<>> /\ Head(t0) \in {"-", "+"} THEN Tail(t0) ELSE t0
        ip == LeadingDigits(t1)
        r  == SubSeq(t1, Len(ip) + 1, Len(t1))
        fp == IF r # <<>> /\ Head(r) = "." THEN LeadingDigits(Tail(r)) ELSE <<>>
        thousandths == DigitsValue(SubSeq(fp \o <<"0", "0", "0">>, 1, 3))
    IN  IF ip = <<>> /\ fp = <<>> THEN NaN
        ELSE Num((IF neg THEN -1 ELSE 1) * (DigitsValue(ip) * 1000 + thousandths))

\* text.replace(/[^...]/g, ""): only the characters of `kept` stay.
Keep(text, kept) == SelectSeq(text, LAMBDA c : c \in kept)
DigitSet == {DigitChars[i] : i \in 1..Len(DigitChars)}

\* text.replace(a, b) with a string pattern: the first occurrence only.
RECURSIVE ReplaceFirst(_, _, _)
ReplaceFirst(text, a, b) ==
    IF text = <<>> THEN <<>>
    ELSE IF Head(text) = a THEN <<b>> \o Tail(text)
    ELSE <<Head(text)>> \o ReplaceFirst(Tail(text), a, b)

\* text.includes(part)
Includes(text, part) ==
    \E i \in 1..(Len(text) - Len(part) + 1) : SubSeq(text, i, i + Len(part) - 1) = part

\* parseFloat(text.replace(/[^0-9.,]/g, "").replace(",", ".")): lines 243, 259, 299, 315
parsePriceText(text) ==
    parseFloat(ReplaceFirst(Keep(text, DigitSet \cup {".", ","}), ",", "."))

\* The currency table of lines 226-228 and 249-251.
currencySymbol(code) ==
    IF code = "TRY" THEN "₺"
    ELSE IF code = "USD" THEN "$"
    ELSE IF code = "EUR" THEN "€"
    ELSE code

\* Lines 260-262 and 319-321: the currency a price text names, if any.
sniffCurrency(text, currency) ==
    IF Includes(text, <<"$">>) THEN "$"
    ELSE IF Includes(text, <<"€">>) THEN "€"
    ELSE IF Includes(text, <<"T", "L">>) \/ Includes(text, <<"₺">>) THEN "₺"
    ELSE currency

\* ------------------------------- the extraction (lines 205-335)
\* A page is what the selectors of scrapeProductData find in the markup: the
\* JSON-LD blocks in document order, the content of the meta tags ("" when
\* the tag is missing), the text of the selected elements, and the texts of
\* the elements whose class or id contains "price", in document order.
UrlParts ==
    [u \in {"https://shop.example/p/1", "https://www.amazon.com/dp/1",
            "https://www.amazon.com.tr/dp/1", "https://www.trendyol.com/p-1"} |->
        IF u = "https://www.amazon.com/dp/1" THEN {"amazon.com"}
        ELSE IF u = "https://www.amazon.com.tr/dp/1" THEN {"amazon.com", ".tr"}
        ELSE IF u = "https://www.trendyol.com/p-1" THEN {"trendyol.com", ".tr"}
        ELSE {}]
UrlIncludes(url, part) == part \in UrlParts[url]

\* let title = ""; let price = 0; let priceText = ""; let currency = "₺"
Blank(currency) ==
    [title |-> <<>>, price |-> Num(0), priceText |-> <<>>, currency |-> currency,
     stop |-> FALSE]

\* An entry read without the `return false` of line 230.
jsonLdItemReadsOn(st, item) ==
    IF item.type \notin {"Product", "http://schema.org/Product"} THEN st
    ELSE
        LET t == IF item.name # <<>> THEN [st EXCEPT !.title = item.name] ELSE st IN
        IF ~item.hasOffers THEN t
        ELSE
            LET p == IF item.price # <<>>
                     THEN [t EXCEPT !.price = parseFloat(item.price)] ELSE t
            IN  IF item.priceCurrency # ""
                THEN [p EXCEPT !.currency = currencySymbol(item.priceCurrency)] ELSE p

\* One entry of a JSON-LD block (lines 218-232). stop: `return false`.
jsonLdItem(st, item) ==
    IF item.type \notin {"Product", "http://schema.org/Product"} THEN st
    ELSE
        LET t == IF item.name # <<>> THEN [st EXCEPT !.title = item.name] ELSE st IN
        IF ~item.hasOffers THEN t
        ELSE
            LET p == IF item.price # <<>>
                     THEN [t EXCEPT !.price = parseFloat(item.price)] ELSE t
                c == IF item.priceCurrency # ""
                     THEN [p EXCEPT !.currency = currencySymbol(item.priceCurrency)] ELSE p
            IN  IF Positive(c.price) THEN [c EXCEPT !.stop = TRUE] ELSE c

RECURSIVE jsonLdItems(_, _)
jsonLdItems(st, items) ==
    IF items = <<>> \/ st.stop THEN st
    ELSE jsonLdItems(jsonLdItem(st, Head(items)), Tail(items))

\* 1. $('script[type="application/ld+json"]').each(...): a block that does not
\* parse is skipped by the empty catch.
RECURSIVE jsonLd(_, _)
jsonLd(st, blocks) ==
    IF blocks = <<>> \/ st.stop THEN st
    ELSE jsonLd(IF Head(blocks).malformed THEN st
                ELSE jsonLdItems(st, Head(blocks).items),
                Tail(blocks))

\* a || b || c on attribute values
Or(a, b) == IF a # <<>> THEN a ELSE b
OrCode(a, b) == IF a # "" THEN a ELSE b

\* 2. the meta tags (lines 238-252)
metaTags(st, doc) ==
    LET metaPrice == Or(doc.priceAmount, Or(doc.ogPriceAmount, doc.twitterData1))
        metaCurrency == OrCode(doc.priceCurrency, doc.ogPriceCurrency)
        t == IF st.title = <<>>
             THEN [st EXCEPT !.title = Or(doc.ogTitle, doc.twitterTitle)] ELSE st
        p == IF IsZero(t.price) /\ metaPrice # <<>>
             THEN [t EXCEPT !.price = parsePriceText(metaPrice)] ELSE t
    IN  IF metaCurrency # ""
        THEN [p EXCEPT !.currency = currencySymbol(metaCurrency)] ELSE p

\* 3. h1.product-name and span.price (lines 255-264)
selectors(st, doc) ==
    LET t == IF st.title = <<>> THEN [st EXCEPT !.title = Trim(doc.productName)] ELSE st
        text == Trim(doc.spanPrice)
    IN  IF ~IsZero(t.price) THEN t
        ELSE IF text = <<>> THEN [t EXCEPT !.priceText = text]
        ELSE [t EXCEPT !.priceText = text,
                       !.price = parsePriceText(text),
                       !.currency = sniffCurrency(text, t.currency)]

\* 4. amazon.com (lines 267-293)
amazon(st, doc) ==
    IF ~UrlIncludes(doc.url, "amazon.com") THEN st
    ELSE
        LET offscreen == Trim(doc.aOffscreen)
            whole == Keep(Trim(doc.aWhole), DigitSet)
            digits == Keep(Trim(doc.aFraction), DigitSet)
            fraction == IF digits # <<>> THEN digits ELSE <<"0", "0">>
            cleanPrice == Keep(offscreen, DigitSet \cup {"-", ",", "."})
            p == IF offscreen # <<>>
                 THEN [st EXCEPT !.priceText = offscreen,
                                 !.price =
                                    IF Includes(cleanPrice, <<",">>) /\ Includes(cleanPrice, <<".">>)
                                    THEN parseFloat(ReplaceFirst(Keep(cleanPrice,
                                             DigitSet \cup {"-", ","}), ",", "."))
                                    ELSE IF Includes(cleanPrice, <<",">>)
                                    THEN parseFloat(ReplaceFirst(cleanPrice, ",", "."))
                                    ELSE parseFloat(cleanPrice)]
                 ELSE IF Trim(doc.aWhole) # <<>>
                 THEN [st EXCEPT !.price = parseFloat(whole \o <<".">> \o fraction)]
                 ELSE st
        IN  IF Positive(p.price)
            THEN [p EXCEPT !.currency = IF UrlIncludes(doc.url, ".tr") THEN "₺" ELSE "$"]
            ELSE p

\* 4. trendyol.com (lines 295-301)
trendyol(st, doc) ==
    IF ~UrlIncludes(doc.url, "trendyol.com") THEN st
    ELSE
        LET c == [st EXCEPT !.currency = "₺"]
            text == Trim(doc.prcDsc)
        IN  IF IsZero(c.price) /\ text # <<>>
            THEN [c EXCEPT !.price = parsePriceText(text)] ELSE c

UnknownProduct ==
    <<"U", "n", "k", "n", "o", "w", "n", " ", "P", "r", "o", "d", "u", "c", "t">>

\* A scan that goes on after an element was accepted.
RECURSIVE scanPricesReadsAll(_, _)
scanPricesReadsAll(st, elems) ==
    IF elems = <<>> THEN st
    ELSE
        LET text == Trim(Head(elems))
            detectedPrice == parsePriceText(text)
        IN  IF Includes(text, <<"%">>) \/ Len(text) < 2 \/ Len(text) > 20
            THEN scanPricesReadsAll(st, Tail(elems))
            ELSE IF Positive(detectedPrice)
            THEN scanPricesReadsAll([st EXCEPT !.price = detectedPrice, !.priceText = text,
                                               !.currency = sniffCurrency(text, st.currency)],
                                    Tail(elems))
            ELSE scanPricesReadsAll(st, Tail(elems))

\* The scan of lines 310-324 over the elements whose class or id contains
\* "price"; stop: `return false`.
RECURSIVE scanPrices(_, _)
scanPrices(st, elems) ==
    IF elems = <<>> \/ st.stop THEN st
    ELSE
        LET text == Trim(Head(elems))
            detectedPrice == parsePriceText(text)
        IN  IF Includes(text, <<"%">>) \/ Len(text) < 2 \/ Len(text) > 20
            THEN scanPrices(st, Tail(elems))
            ELSE IF Positive(detectedPrice)
            THEN [st EXCEPT !.price = detectedPrice, !.priceText = text,
                            !.currency = sniffCurrency(text, st.currency),
                            !.stop = TRUE]
            ELSE scanPrices(st, Tail(elems))

\* 5. the final fallbacks (lines 304-327)
fallbacks(st, doc) ==
    LET t == IF st.title = <<>>
             THEN [st EXCEPT !.title = Or(Trim(doc.h1), Or(Trim(doc.docTitle), UnknownProduct))]
             ELSE st
        p == IF IsZero(t.price) THEN scanPrices([t EXCEPT !.stop = FALSE], doc.priceElems)
             ELSE t
    IN  IF Len(p.title) > 100
        THEN [p EXCEPT !.title = SubSeq(p.title, 1, 97) \o <<".", ".", ".">>] ELSE p

\* The strategies in their order, from the state `start`.
strategies(start, doc) ==
    fallbacks(trendyol(amazon(selectors(metaTags(
        [jsonLd(start, doc.jsonld) EXCEPT !.stop = FALSE], doc), doc), doc), doc), doc)

\* scrapeProductData for markup that was fetched (lines 205-335)
scrapeProductData(doc) ==
    LET st == strategies(Blank("₺"), doc) IN
    [success |-> TRUE, title |-> st.title,
     price |-> IF st.price.nan THEN Num(0) ELSE st.price,
     currency |-> st.currency, rawPrice |-> st.priceText]

\* ------------------------------------------------------------ scraping
\* What scrapeProductData returns (lines 329-342): a failure (the fetch or the
\* parse threw), or success with a price >= 0 and a currency.
ScrapeFailure == [success |-> FALSE, price |-> 0, currency |-> ""]
ScrapeResults ==
    {ScrapeFailure, [success |-> TRUE, price |-> 0, currency |-> "₺"]} \cup
    [success : {TRUE}, price : 1..MaxPrice, currency : {"$"}]

scrapePrice(result) ==
    [price    |-> IF result.success /\ result.price > 0 THEN result.price ELSE 0,
     currency |-> IF result.success THEN result.currency ELSE "₺"]

\* prisma.product.update({where: {id}, data: {currentPrice, currency,
\* priceHistory: {create: {price}}}}): one nested write.
UpdatedProducts(id, price, currency) ==
    [products EXCEPT ![id].currentPrice = price, ![id].currency = currency]

\* Mutant: the update sets currentPrice and creates no sample.
UpdatedHistoryLost(id, price) == history

UpdatedHistory(id, price) ==
    [history EXCEPT ![id] = Append(@, price)]

\* GET /api/products: include: {priceHistory: {orderBy: {checkedAt: "desc"},
\* take: 10}}: the newest samples first.
Take == 10

\* The samples of a product by checkedAt: a sample's checkedAt is the time it
\* was written (no write passes one), so this is the order of the writes.
byCheckedAt(id) == history[id]

priceHistory(id) ==
    LET newestFirst == Reverse(byCheckedAt(id)) IN
    SubSeq(newestFirst, 1, IF Len(newestFirst) < Take THEN Len(newestFirst) ELSE Take)

\* getPriceChange of the page (part_000, lines 163-170): priceHistory[1] is
\* the second entry of the list.
getPriceChange(id) ==
    IF Len(priceHistory(id)) < 2 THEN [null |-> TRUE, previous |-> 0, diff |-> 0]
    ELSE [null |-> FALSE, previous |-> priceHistory(id)[2],
          diff |-> products[id].currentPrice - priceHistory(id)[2]]

\* prisma.product.create({data: {url, title, currentPrice: price, currency,
\* userId, priceHistory: {create: {price}}}}): the row and its first sample.
Created(price, currency, u) ==
    [exists |-> TRUE, currentPrice |-> price, currency |-> currency, userId |-> u]

\* ------------------------------------------------------------------ Init
\* The store holds one product (u1's, id 1), as POST /api/products created
\* it from a page showing the price MaxPrice in dollars (the row and its first
\* sample).
Owner(id) == IF id % 2 = 1 THEN "u1" ELSE "u2"

IdleSweep == [pc |-> "idle", list |-> <<>>, i |-> 1, price |-> 0, currency |-> "",
              oldPrice |-> 0, updatedCount |-> 0, log |-> <<>>, mails |-> <<>>]
IdleCheck == [pc |-> "idle", id |-> 0, result |-> ScrapeFailure, response |-> "none"]
IdleDelete == [pc |-> "idle", id |-> 0, response |-> "none"]

\* await scrapePrice(...) returned to the check `by` for product id; the
\* update of the check `by` wrote the price it had fetched.
NoneFetched == [by |-> "none", written |-> FALSE]
Fetched(by, id) == [lastFetch EXCEPT ![id] = [by |-> by, written |-> FALSE]]
Written(by, id) ==
    IF lastFetch[id].by = by THEN [lastFetch EXCEPT ![id].written = TRUE] ELSE lastFetch

\* After the step, a check holds a fetched price of product id that it has
\* yet to write; the order of the fetches is kept for such products only.
AwaitsWrite(id) ==
    \/ mc'.pc = "update" /\ mc'.id = id
    \/ \E s \in Sweeps : sweep'[s].pc = "update" /\ sweep'[s].list[sweep'[s].i].id = id
Kept(fetches) == [id \in ProductIds |-> IF AwaitsWrite(id) THEN fetches[id] ELSE NoneFetched]

StoreInit ==
    /\ products = [id \in ProductIds |->
          IF id = 1 THEN Created(MaxPrice, "$", Owner(id)) ELSE NoRow]
    /\ history = [id \in ProductIds |->
          IF id = 1 THEN <<MaxPrice>> ELSE <<>>]
    /\ nextId = 2
    /\ sweep = [s \in Sweeps |-> IdleSweep]
    /\ mc = IdleCheck
    /\ dl = IdleDelete
    /\ ops = 0
    /\ lastFetch = [id \in ProductIds |-> NoneFetched]

\* ------------------------------------------------- POST /api/products
\* The scrape reads no stored state and the create is one insert, so the
\* handler's only effect on the store is the create.
AddProduct(u, result) ==
    /\ ops < MaxOps
    /\ nextId \in ProductIds
    /\ LET r == scrapePrice(result) IN
       /\ products' = [products EXCEPT ![nextId] = Created(r.price, r.currency, u)]
       /\ history' = [history EXCEPT ![nextId] = <<r.price>>]
    /\ nextId' = nextId + 1
    /\ ops' = ops + 1
    /\ UNCHANGED <<fetch, scrapeVars, sweep, mc, dl, lastFetch>>

\* ------------------------------------- POST /api/products/:id/check
\* Mutant: the row is looked up by id alone, whoever owns it.
CheckStartAnyUser(u, id) ==
    /\ ops < MaxOps
    /\ mc.pc = "idle"
    /\ ops' = ops + 1
    /\ IF products[id].exists
       THEN mc' = [pc |-> "scrape", id |-> id, result |-> ScrapeFailure, response |-> "none"]
       ELSE mc' = [IdleCheck EXCEPT !.response = "404"]
    /\ UNCHANGED <<fetch, scrapeVars, products, history, nextId, sweep, dl, lastFetch>>

\* findFirst({where: {id, userId}}): 404 unless the row is the session user's.
CheckStart(u, id) ==
    /\ ops < MaxOps
    /\ mc.pc = "idle"
    /\ ops' = ops + 1
    /\ IF products[id].exists /\ products[id].userId = u
       THEN mc' = [pc |-> "scrape", id |-> id, result |-> ScrapeFailure, response |-> "none"]
       ELSE mc' = [IdleCheck EXCEPT !.response = "404"]
    /\ UNCHANGED <<fetch, scrapeVars, products, history, nextId, sweep, dl, lastFetch>>

\* await scrapePrice(product.url) returns.
CheckScrape(result) ==
    /\ mc.pc = "scrape"
    /\ mc' = [mc EXCEPT !.pc = "update", !.result = result]
    /\ UNCHANGED <<fetch, scrapeVars, products, history, nextId, sweep, dl, ops>>
    /\ lastFetch' = Kept(Fetched("manual", mc.id))

\* await prisma.product.update(...): the price is written whatever it is.
\* The update throws when the row is gone or the database fails (dbOk = FALSE).
CheckUpdate(dbOk) ==
    /\ mc.pc = "update"
    /\ LET r == scrapePrice(mc.result) IN
       IF products[mc.id].exists /\ dbOk
       THEN /\ products' = UpdatedProducts(mc.id, r.price, r.currency)
            /\ history' = UpdatedHistory(mc.id, r.price)
            /\ mc' = [IdleCheck EXCEPT !.id = mc.id, !.response = "200"]
       ELSE /\ mc' = [IdleCheck EXCEPT !.id = mc.id, !.response = "error"]
            /\ UNCHANGED <<products, history>>
    /\ UNCHANGED <<fetch, scrapeVars, nextId, sweep, dl, ops>>
    /\ lastFetch' = Kept(IF products[mc.id].exists /\ dbOk THEN Written("manual", mc.id)
                         ELSE lastFetch)

\* ------------------------------------------- DELETE /api/products/:id
DeleteStart(u, id) ==
    /\ ops < MaxOps
    /\ dl.pc = "idle"
    /\ ops' = ops + 1
    /\ IF products[id].exists /\ products[id].userId = u
       THEN dl' = [pc |-> "history", id |-> id, response |-> "none"]
       ELSE dl' = [IdleDelete EXCEPT !.response = "404"]
    /\ UNCHANGED <<fetch, scrapeVars, products, history, nextId, sweep, mc, lastFetch>>

\* await prisma.priceHistory.deleteMany({where: {productId: id}})
DeleteHistory(dbOk) ==
    /\ dl.pc = "history"
    /\ IF dbOk
       THEN /\ history' = [history EXCEPT ![dl.id] = <<>>]
            /\ dl' = [dl EXCEPT !.pc = "product"]
       ELSE /\ dl' = [dl EXCEPT !.pc = "idle", !.response = "error"]
            /\ UNCHANGED history
    /\ UNCHANGED <<fetch, scrapeVars, products, nextId, sweep, mc, ops, lastFetch>>

\* The PriceHistory.product relation: a Product row that still has samples
\* cannot be deleted ("Delete price history first due to relations").
RelationRestricts(id) == history[id] # <<>>

\* Mutant: the product row is deleted though samples of it remain.
DeleteProductUnrestricted(dbOk) ==
    /\ dl.pc = "product"
    /\ IF products[dl.id].exists /\ dbOk
       THEN /\ products' = [products EXCEPT ![dl.id] = NoRow]
            /\ dl' = [dl EXCEPT !.pc = "idle", !.response = "success"]
       ELSE /\ dl' = [dl EXCEPT !.pc = "idle", !.response = "error"]
            /\ UNCHANGED products
    /\ UNCHANGED <<fetch, scrapeVars, history, nextId, sweep, mc, ops, lastFetch>>

\* await prisma.product.delete({where: {id}})
DeleteProduct(dbOk) ==
    /\ dl.pc = "product"
    /\ IF products[dl.id].exists /\ ~RelationRestricts(dl.id) /\ dbOk
       THEN /\ products' = [products EXCEPT ![dl.id] = NoRow]
            /\ dl' = [dl EXCEPT !.pc = "idle", !.response = "success"]
       ELSE /\ dl' = [dl EXCEPT !.pc = "idle", !.response = "error"]
            /\ UNCHANGED products
    /\ UNCHANGED <<fetch, scrapeVars, history, nextId, sweep, mc, ops, lastFetch>>

\* ------------------ the sweeps: cron.schedule callback, GET /api/cron/check
RECURSIVE IdsFrom(_)
IdsFrom(id) ==
    IF id \notin ProductIds THEN <<>>
    ELSE IF products[id].exists THEN <<id>> \o IdsFrom(id + 1)
    ELSE IdsFrom(id + 1)

\* prisma.product.findMany({include: {user: true}})
findMany ==
    LET ids == IdsFrom(1) IN
    [k \in 1..Len(ids) |->
        [id |-> ids[k],
         currentPrice |-> products[ids[k]].currentPrice,
         notificationEmail |-> notificationEmail[products[ids[k]].userId]]]

\* Only GET /api/cron/check keeps a count (updatedCount++).
Counted(s, n) == IF s = "api" THEN n + 1 ELSE n

\* The end of one iteration of `for (const product of products)`: what happened
\* to the product is noted and the loop moves to the next product, or ends.
NextProduct(sw, entry) ==
    [sw EXCEPT !.log = Append(sw.log, entry),
               !.i = sw.i + 1,
               !.pc = IF sw.i + 1 > Len(sw.list) THEN "done" ELSE "scrape"]

Entry(id, fetched, price, write) ==
    [id |-> id, fetch |-> fetched, price |-> price, write |-> write]

SweepStart(s) ==
    /\ ops < MaxOps
    /\ sweep[s].pc \in {"idle", "done"}
    /\ ops' = ops + 1
    /\ sweep' = [sweep EXCEPT ![s] =
                    [IdleSweep EXCEPT !.list = findMany,
                                      !.pc = IF findMany = <<>> THEN "done" ELSE "scrape"]]
    /\ UNCHANGED <<fetch, scrapeVars, products, history, nextId, mc, dl, lastFetch>>

\* await scrapePrice(product.url) returns; if (price > 0) the update is issued.
SweepScrape(s, result) ==
    /\ sweep[s].pc = "scrape"
    /\ LET sw == sweep[s]
           product == sw.list[sw.i]
           r == scrapePrice(result)
       IN  IF r.price > 0
           THEN sweep' = [sweep EXCEPT ![s] =
                             [sw EXCEPT !.pc = "update", !.price = r.price,
                                        !.currency = r.currency,
                                        !.oldPrice = product.currentPrice]]
           ELSE sweep' = [sweep EXCEPT ![s] =
                             NextProduct(sw, Entry(product.id,
                                 IF result.success THEN "noprice" ELSE "failed", 0, "none"))]
    /\ UNCHANGED <<fetch, scrapeVars, products, history, nextId, mc, dl, ops>>
    /\ lastFetch' = Kept(Fetched(s, sweep[s].list[sweep[s].i].id))

\* Mutant: an unchanged price counts as a drop.
PriceDroppedOrEqual(price, oldPrice, to) == price <= oldPrice /\ to # ""

\* if (price < oldPrice && product.user.notificationEmail)
PriceDropped(price, oldPrice, to) == price < oldPrice /\ to # ""

\* Mutant: the try/catch is around the loop, so a failed update ends the sweep.
SweepUpdateAborting(s, dbOk) ==
    /\ sweep[s].pc = "update"
    /\ LET sw == sweep[s]
           product == sw.list[sw.i]
       IN  IF products[product.id].exists /\ dbOk
           THEN /\ products' = UpdatedProducts(product.id, sw.price, sw.currency)
                /\ history' = UpdatedHistory(product.id, sw.price)
                /\ IF PriceDropped(sw.price, sw.oldPrice, product.notificationEmail)
                   THEN sweep' = [sweep EXCEPT ![s].pc = "email"]
                   ELSE sweep' = [sweep EXCEPT ![s] =
                           NextProduct([sw EXCEPT !.updatedCount = Counted(s, sw.updatedCount)],
                                       Entry(product.id, "ok", sw.price, "ok"))]
           ELSE /\ sweep' = [sweep EXCEPT ![s].pc = "done"]
                /\ UNCHANGED <<products, history>>
    /\ UNCHANGED <<fetch, scrapeVars, nextId, mc, dl, ops>>
    /\ lastFetch' = Kept(IF products[sweep[s].list[sweep[s].i].id].exists /\ dbOk
                         THEN Written(s, sweep[s].list[sweep[s].i].id) ELSE lastFetch)

\* await prisma.product.update(...) returns or throws (caught by the loop's catch).
SweepUpdate(s, dbOk) ==
    /\ sweep[s].pc = "update"
    /\ LET sw == sweep[s]
           product == sw.list[sw.i]
       IN  IF products[product.id].exists /\ dbOk
           THEN /\ products' = UpdatedProducts(product.id, sw.price, sw.currency)
                /\ history' = UpdatedHistory(product.id, sw.price)
                /\ IF PriceDropped(sw.price, sw.oldPrice, product.notificationEmail)
                   THEN sweep' = [sweep EXCEPT ![s].pc = "email"]
                   ELSE sweep' = [sweep EXCEPT ![s] =
                           NextProduct([sw EXCEPT !.updatedCount = Counted(s, sw.updatedCount)],
                                       Entry(product.id, "ok", sw.price, "ok"))]
           ELSE /\ sweep' = [sweep EXCEPT ![s] =
                                NextProduct(sw, Entry(product.id, "ok", sw.price, "failed"))]
                /\ UNCHANGED <<products, history>>
    /\ UNCHANGED <<fetch, scrapeVars, nextId, mc, dl, ops>>
    /\ lastFetch' = Kept(IF products[sweep[s].list[sweep[s].i].id].exists /\ dbOk
                         THEN Written(s, sweep[s].list[sweep[s].i].id) ELSE lastFetch)

\* Mutant: the dispatch is requested a second time.
sendPriceDropEmailTwice(mails, to, id, oldPrice, newPrice, delivered) ==
    IF to = "" THEN mails
    ELSE mails \o
         <<[to |-> to, id |-> id, oldPrice |-> oldPrice,
            newPrice |-> newPrice, delivered |-> delivered],
           [to |-> to, id |-> id, oldPrice |-> oldPrice,
            newPrice |-> newPrice, delivered |-> delivered]>>

\* sendPriceDropEmail(to, title, oldPrice, newPrice, currency, url): nothing
\* without an address; a transport failure is caught and logged.
sendPriceDropEmail(mails, to, id, oldPrice, newPrice, delivered) ==
    IF to = "" THEN mails
    ELSE Append(mails, [to |-> to, id |-> id, oldPrice |-> oldPrice,
                        newPrice |-> newPrice, delivered |-> delivered])

\* Mutant: a dispatch failure escapes sendPriceDropEmail and the loop.
SweepEmailAborting(s, delivered) ==
    /\ sweep[s].pc = "email"
    /\ LET sw == sweep[s]
           product == sw.list[sw.i]
           sent == [sw EXCEPT !.updatedCount = Counted(s, sw.updatedCount),
                              !.mails = sendPriceDropEmail(sw.mails,
                                  product.notificationEmail, product.id,
                                  sw.oldPrice, sw.price, delivered)]
       IN  sweep' = [sweep EXCEPT ![s] =
               IF delivered THEN NextProduct(sent, Entry(product.id, "ok", sw.price, "ok"))
               ELSE [sent EXCEPT !.pc = "done"]]
    /\ UNCHANGED <<fetch, scrapeVars, products, history, nextId, mc, dl, ops, lastFetch>>

\* Mutant: a dispatch failure escapes sendPriceDropEmail into the loop's catch,
\* which skips updatedCount++.
SweepEmailUncounted(s, delivered) ==
    /\ sweep[s].pc = "email"
    /\ LET sw == sweep[s]
           product == sw.list[sw.i]
           sent == [sw EXCEPT !.mails = sendPriceDropEmail(sw.mails,
                                  product.notificationEmail, product.id,
                                  sw.oldPrice, sw.price, delivered)]
       IN  sweep' = [sweep EXCEPT ![s] =
               NextProduct(IF delivered
                           THEN [sent EXCEPT !.updatedCount = Counted(s, sw.updatedCount)]
                           ELSE sent,
                           Entry(product.id, "ok", sw.price, "ok"))]
    /\ UNCHANGED <<fetch, scrapeVars, products, history, nextId, mc, dl, ops, lastFetch>>

\* await sendPriceDropEmail(...) returns; updatedCount++.
SweepEmail(s, delivered) ==
    /\ sweep[s].pc = "email"
    /\ LET sw == sweep[s]
           product == sw.list[sw.i]
       IN  sweep' = [sweep EXCEPT ![s] =
               NextProduct([sw EXCEPT !.updatedCount = Counted(s, sw.updatedCount),
                                      !.mails = sendPriceDropEmail(sw.mails,
                                          product.notificationEmail, product.id,
                                          sw.oldPrice, sw.price, delivered)],
                           Entry(product.id, "ok", sw.price, "ok"))]
    /\ UNCHANGED <<fetch, scrapeVars, products, history, nextId, mc, dl, ops, lastFetch>>

Next ==
    \/ \E u \in Users, r \in ScrapeResults : AddProduct(u, r)
    \/ \E u \in Users, id \in ProductIds : CheckStart(u, id)
    \/ \E r \in ScrapeResults : CheckScrape(r)
    \/ \E ok \in BOOLEAN : CheckUpdate(ok)
    \/ \E u \in Users, id \in ProductIds : DeleteStart(u, id)
    \/ \E ok \in BOOLEAN : DeleteHistory(ok)
    \/ \E ok \in BOOLEAN : DeleteProduct(ok)
    \/ \E s \in Sweeps : SweepStart(s)
    \/ \E s \in Sweeps, r \in ScrapeResults : SweepScrape(s, r)
    \/ \E s \in Sweeps, ok \in BOOLEAN : SweepUpdate(s, ok)
    \/ \E s \in Sweeps, ok \in BOOLEAN : SweepEmail(s, ok)

Init == StoreInit /\ fetch = NoFetch /\ page = NoPage /\ scraped = NotScraped

Spec == Init /\ [][Next]_vars

FetchSpec == Init /\ [][FetchNext]_vars

\* One of the two sweep triggers is in use: the other never starts.
Solo(s) == \A t \in Sweeps \ {s} : sweep[t].pc = "idle"

OneSweepNext ==
    \/ \E u \in Users, r \in ScrapeResults : AddProduct(u, r)
    \/ \E u \in Users, id \in ProductIds : CheckStart(u, id)
    \/ \E r \in ScrapeResults : CheckScrape(r)
    \/ \E ok \in BOOLEAN : CheckUpdate(ok)
    \/ \E u \in Users, id \in ProductIds : DeleteStart(u, id)
    \/ \E ok \in BOOLEAN : DeleteHistory(ok)
    \/ \E ok \in BOOLEAN : DeleteProduct(ok)
    \/ \E s \in {t \in Sweeps : Solo(t)} : SweepStart(s)
    \/ \E s \in Sweeps, r \in ScrapeResults : SweepScrape(s, r)
    \/ \E s \in Sweeps, ok \in BOOLEAN : SweepUpdate(s, ok)
    \/ \E s \in Sweeps, ok \in BOOLEAN : SweepEmail(s, ok)
OneSweepSpec == Init /\ [][OneSweepNext]_vars

\* ---------------------------------------------- the pages that are scraped
Item(type, name, hasOffers, price, priceCurrency) ==
    [type |-> type, name |-> name, hasOffers |-> hasOffers, price |-> price,
     priceCurrency |-> priceCurrency]
Block(items) == [malformed |-> FALSE, items |-> items]
Malformed == [malformed |-> TRUE, items |-> <<>>]

\* a product with an offer of 12.99 USD
PricedProduct == Item("Product", <<"A">>, TRUE, <<"1", "2", ".", "9", "9">>, "USD")
\* a product whose offer names its currency but carries no usable price
UnpricedProduct == Item("Product", <<"A">>, TRUE, <<"a", "b", "c">>, "EUR")
FreeProduct == Item("Product", <<>>, TRUE, <<"0">>, "USD")
Breadcrumb == Item("BreadcrumbList", <<"Z">>, FALSE, <<>>, "")

JsonLds ==
    { <<>>,
      <<Block(<<Breadcrumb, PricedProduct>>)>>,
      <<Malformed, Block(<<PricedProduct>>)>>,
      <<Block(<<UnpricedProduct>>)>>,
      <<Block(<<FreeProduct>>), Block(<<Item("Product", <<"B">>, TRUE, <<"7", ".", "5">>, "")>>)>> }

\* pages that combine the sources of a title, a price and a currency
CombinedPages ==
    [url : DOMAIN UrlParts,
     jsonld : JsonLds,
     ogTitle : {<<>>, <<"C">>},
     twitterTitle : {<<>>},
     priceAmount : {<<>>, <<"9", ".", "5", "0">>, <<"3", ".", "8", "7", "1", ",", "4", "5">>},
     ogPriceAmount : {<<>>},
     twitterData1 : {<<>>},
     priceCurrency : {"", "TRY"},
     ogPriceCurrency : {"", "EUR"},
     productName : {<<>>, <<" ", "D">>},
     spanPrice : {<<>>, <<"$", "1", "9", ".", "9", "9">>},
     aOffscreen : {<<>>, <<"$", "7", ".", "0", "0">>},
     aWhole : {<<>>},
     aFraction : {<<>>},
     prcDsc : {<<>>, <<"5", " ", "T", "L">>},
     h1 : {<<>>, <<"E">>},
     docTitle : {<<>>},
     priceElems : {<<>>, <<<<"2", "5", "%", " ", "o", "f", "f">>, <<"€", "3">>>>}]

\* a page on which no selector finds anything
EmptyPage(url) ==
    [url |-> url, jsonld |-> <<>>, ogTitle |-> <<>>, twitterTitle |-> <<>>,
     priceAmount |-> <<>>, ogPriceAmount |-> <<>>, twitterData1 |-> <<>>,
     priceCurrency |-> "", ogPriceCurrency |-> "", productName |-> <<>>,
     spanPrice |-> <<>>, aOffscreen |-> <<>>, aWhole |-> <<>>, aFraction |-> <<>>,
     prcDsc |-> <<>>, h1 |-> <<>>, docTitle |-> <<>>, priceElems |-> <<>>]

PriceTexts ==
    { <<"3", ".", "8", "7", "1", ",", "4", "5">>,
      <<"1", "2", ",", "9", "9">>,
      <<"1", "2", "9", "9">>,
      <<"1", "2", ".", "9", "9">>,
      <<"1", ".", "2", "9", "9">>,
      <<"1", ",", "2", "9", "9", ".", "0", "0">>,
      <<"$", "1", "9", ".", "9", "9">>,
      <<"5", " ", "T", "L">>,
      <<"-", "5", ".", "0", "0">>,
      <<"0">>,
      <<"a", "b", "c">>,
      <<"2", "5", "%", " ", "o", "f", "f">> }

Shop == "https://shop.example/p/1"

\* pages whose only price is the text t, in each place a price is read from
PricedPages ==
    UNION { { [EmptyPage(Shop) EXCEPT !.jsonld = <<Block(<<Item("Product", <<"A">>, TRUE, t, "")>>)>>],
              [EmptyPage(Shop) EXCEPT !.priceAmount = t],
              [EmptyPage(Shop) EXCEPT !.ogPriceAmount = t],
              [EmptyPage(Shop) EXCEPT !.twitterData1 = t],
              [EmptyPage(Shop) EXCEPT !.spanPrice = t],
              [EmptyPage("https://www.amazon.com/dp/1") EXCEPT !.aOffscreen = t],
              [EmptyPage("https://www.amazon.com.tr/dp/1") EXCEPT !.aOffscreen = t],
              [EmptyPage("https://www.amazon.com.tr/dp/1") EXCEPT !.aWhole = t,
                                                                 !.aFraction = <<"4", "5">>],
              [EmptyPage("https://www.trendyol.com/p-1") EXCEPT !.prcDsc = t],
              [EmptyPage(Shop) EXCEPT !.priceElems = <<t>>] } : t \in PriceTexts }

OtherProduct == Item("Product", <<"B">>, TRUE, <<"7", ".", "5">>, "EUR")

\* pages with several JSON-LD blocks
JsonLdPages ==
    { [EmptyPage(Shop) EXCEPT !.jsonld = j] :
        j \in { <<Block(<<PricedProduct>>), Block(<<OtherProduct>>)>>,
                <<Block(<<OtherProduct>>), Block(<<PricedProduct>>)>>,
                <<Block(<<PricedProduct, OtherProduct>>)>>,
                <<Malformed, Block(<<Breadcrumb, FreeProduct, PricedProduct>>), Block(<<OtherProduct>>)>>,
                <<Block(<<UnpricedProduct>>), Malformed, Block(<<OtherProduct>>), Malformed>>,
                <<Malformed>>,
                <<Malformed, Malformed, Block(<<FreeProduct>>)>> } }

\* pages with several elements whose class or id contains "price", alone
\* and below a meta price
PriceElems ==
    { <<<<"2", "5", "%", " ", "o", "f", "f">>, <<"$", "1", "9", ".", "9", "9">>, <<"€", "3">>>>,
      <<<<"5">>, <<"a", "b", "c">>, <<"1", "2", ",", "9", "9", " ", "T", "L">>, <<"$", "1", "9", ".", "9", "9">>>>,
      <<<<"P", "r", "i", "c", "e", ":", " ", " ", " ", " ", " ", " ", " ", " ", " ", "$", "1", "9", ".", "9", "9">>, <<"€", "3">>>>,
      <<<<"P", "r", "i", "c", "e", ":", " ", " ", " ", " ", " ", " ", " ", " ", "$", "1", "9", ".", "9", "9">>, <<"€", "3">>>>,
      <<<<" ", "7", " ">>, <<" ", " ", "$", "1", " ">>, <<"€", "3">>>>,
      <<<<"2", "5", "%", " ", "o", "f", "f">>>>,
      <<<<"a", "b", "c">>, <<"0">>>>,
      <<<<"€", "3">>, <<"$", "1", "9", ".", "9", "9">>>> }
ScanPages ==
    { [EmptyPage(u) EXCEPT !.priceElems = e, !.priceAmount = a] :
        u \in {Shop, "https://www.trendyol.com/p-1"}, e \in PriceElems,
        a \in {<<>>, <<"9", ".", "5", "0">>, <<"a", "b", "c">>} }

Pages == CombinedPages \cup PricedPages \cup JsonLdPages \cup ScanPages

\* The markup of a page arrives and scrapeProductData extracts from it.
Scrape ==
    /\ scraped = NotScraped
    /\ page \in Pages
    /\ scraped' = scrapeProductData(page)
    /\ UNCHANGED <<storeVars, fetch, page>>

ExtractInit == StoreInit /\ fetch = NoFetch /\ page \in Pages /\ scraped = NotScraped
ExtractNext == Scrape
ExtractSpec == ExtractInit /\ [][ExtractNext]_vars

\* ------------------------------------------------------------ the claims
Last(seq) == seq[Len(seq)]

\* The step in which sweep s finishes a product, noting `entry`-like facts.
Finishes(s) == Len(sweep'[s].log) = Len(sweep[s].log) + 1

StoreUnchanged == products' = products /\ history' = history

\* A check whose fetch failed ends: the manual check's update returns, or a
\* sweep's scrape of the product returns.
FailedFetchStep ==
    \/ mc.pc = "update" /\ ~mc.result.success /\ mc'.pc = "idle"
    \/ \E s \in Sweeps :
          sweep[s].pc = "scrape" /\ Finishes(s) /\ Last(sweep'[s].log).fetch = "failed"

\* C1: a manual check or a sweep's check whose fetch fails leaves the stored
\* currentPrice, currency and price history as they were.
C1_FailedFetchKeepsStore == [][FailedFetchStep => StoreUnchanged]_vars

\* A check whose extraction succeeded with price <= 0 ends.
NoPriceStep ==
    \/ mc.pc = "update" /\ mc.result.success /\ mc.result.price <= 0 /\ mc'.pc = "idle"
    \/ \E s \in Sweeps :
          sweep[s].pc = "scrape" /\ Finishes(s) /\ Last(sweep'[s].log).fetch = "noprice"

\* C2: a check whose extraction yields price <= 0 writes nothing: the stored
\* price is not overwritten with zero and no history sample is appended.
C2_NoPriceKeepsStore == [][NoPriceStep => StoreUnchanged]_vars

\* A sweep's step in which a product's fetch, parse or persistence failed.
FailureStep(s) ==
    /\ Finishes(s)
    /\ Last(sweep'[s].log).fetch = "failed" \/ Last(sweep'[s].log).write = "failed"

\* The sweep goes on with the product after the current one (or ends after the
\* last one), keeping its list and what it noted so far.
GoesOn(s) ==
    /\ sweep'[s].list = sweep[s].list
    /\ sweep'[s].i = sweep[s].i + 1
    /\ sweep'[s].pc = IF sweep'[s].i <= Len(sweep[s].list) THEN "scrape" ELSE "done"
    /\ SubSeq(sweep'[s].log, 1, Len(sweep[s].log)) = sweep[s].log

\* C3: in a sweep a failure for one product leaves the store as it is (no
\* update of the run is undone) and the sweep goes on to the next product; a
\* sweep ends only when every product of its list has been attempted.
C3_SweepIsolatesFailures ==
    /\ [](\A s \in Sweeps : sweep[s].pc = "done" => Len(sweep[s].log) = Len(sweep[s].list))
    /\ [][\A s \in Sweeps : FailureStep(s) => StoreUnchanged /\ GoesOn(s)]_vars

C3_Witness ==
    \E s \in Sweeps :
        /\ sweep[s].pc = "done"
        /\ Len(sweep[s].log) = 2
        /\ sweep[s].log[1].fetch = "failed"
        /\ sweep[s].log[2].write = "ok"
        /\ products[sweep[s].log[2].id].currentPrice = sweep[s].log[2].price

\* The dispatch requests sweep s made for product id in its run.
Dispatches(s, id) ==
    Cardinality({j \in 1..Len(sweep[s].mails) : sweep[s].mails[j].id = id})

\* Product k of sweep s's list was updated with a price below the one the
\* sweep loaded, and its owner has a notification address.
DropDetected(s, k) ==
    /\ sweep[s].log[k].write = "ok"
    /\ sweep[s].log[k].price < sweep[s].list[k].currentPrice
    /\ sweep[s].list[k].notificationEmail # ""

\* C4: in one sweep, every product whose check detected a drop and whose owner
\* has an address got exactly one dispatch request; every other product none.
C4_OneDispatchPerDrop ==
    \A s \in Sweeps : \A k \in 1..Len(sweep[s].list) :
        Dispatches(s, sweep[s].list[k].id) =
            IF k <= Len(sweep[s].log) /\ DropDetected(s, k) THEN 1 ELSE 0

C4_Witness ==
    \E s \in Sweeps : \E k \in 1..Len(sweep[s].log) :
        DropDetected(s, k) /\ Dispatches(s, sweep[s].list[k].id) = 1

\* The product of sweep s's list with this id.
Loaded(s, id) == CHOOSE p \in {sweep[s].list[k] : k \in 1..Len(sweep[s].list)} : p.id = id

\* C5: a drop is signalled and a notification requested only for a positive
\* new price strictly below the previous price, and only for an owner with a
\* notification address.
C5_DropOnlyWhenLower ==
    \A s \in Sweeps :
        /\ sweep[s].pc = "email" =>
              /\ 0 < sweep[s].price
              /\ sweep[s].price < sweep[s].list[sweep[s].i].currentPrice
              /\ sweep[s].list[sweep[s].i].notificationEmail # ""
        /\ \A j \in 1..Len(sweep[s].mails) :
              LET m == sweep[s].mails[j] IN
              /\ 0 < m.newPrice
              /\ m.newPrice < m.oldPrice
              /\ m.oldPrice = Loaded(s, m.id).currentPrice
              /\ m.to # "" /\ m.to = Loaded(s, m.id).notificationEmail

\* A drop was notified, and a product updated with an equal or higher price
\* (or with a lower one for an owner without address) was not.
C5_Witness ==
    \E s \in Sweeps :
        /\ Len(sweep[s].mails) = 1
        /\ \E k \in 1..Len(sweep[s].log) :
              /\ sweep[s].log[k].write = "ok"
              /\ Dispatches(s, sweep[s].log[k].id) = 0

\* The step in which sweep s's dispatch fails.
DispatchFailedStep(s) ==
    /\ sweep[s].pc = "email"
    /\ Len(sweep'[s].mails) = Len(sweep[s].mails) + 1
    /\ ~Last(sweep'[s].mails).delivered

\* C6: a failed dispatch leaves the store as it is (the product's update stays
\* persisted), the product counts as updated and the sweep goes on.
C6_DispatchFailureSwallowed ==
    [][\A s \in Sweeps : DispatchFailedStep(s) =>
          /\ StoreUnchanged
          /\ GoesOn(s)
          /\ Last(sweep'[s].log).write = "ok"]_vars

\* A dispatch failed for the first product, whose new price is stored, and
\* the sweep updated the second one.
C6_Witness ==
    \E s \in Sweeps :
        /\ Len(sweep[s].mails) = 1 /\ ~sweep[s].mails[1].delivered
        /\ Len(sweep[s].log) = 2
        /\ sweep[s].log[1].id = sweep[s].mails[1].id
        /\ products[sweep[s].log[1].id].currentPrice = sweep[s].mails[1].newPrice
        /\ sweep[s].log[2].write = "ok"

\* The products whose new price sweep s persisted in its run.
Persisted(s) == {k \in 1..Len(sweep[s].log) : sweep[s].log[k].write = "ok"}

\* C7: the count GET /api/cron/check reports is the number of products whose
\* new price was persisted in the run.
C7_CountIsPersisted ==
    sweep["api"].updatedCount = Cardinality(Persisted("api"))

\* Two products: one persisted and counted though its dispatch failed, the
\* other not persisted and not counted.
C7_Witness ==
    /\ sweep["api"].pc = "done"
    /\ Len(sweep["api"].log) = 2
    /\ sweep["api"].updatedCount = 1
    /\ \E j \in 1..Len(sweep["api"].mails) : ~sweep["api"].mails[j].delivered

C9_UnfinishedFetchHasDeadline ==
    InFlight => fetch.timer = "armed" /\ fetch.elapsed <= Deadline

\* The fields a strategy sets by itself: it is run on a field that nothing has
\* set, whose currency is the mark "unset".
Unset == Blank("unset")
SetsTitle(st) == st.title # <<>>
SetsPrice(st) == Positive(st.price)
SetsCurrency(st) == st.currency # "unset"
Generic(doc) == UrlParts[doc.url] = {}

\* C10: title, price and currency are first-writer-wins along the chain
\* JSON-LD, meta tags, generic selectors, final fallbacks: on a page without
\* a site-specific override, a field that JSON-LD set is the result's, and a
\* field that the meta tags set while JSON-LD left it unset is the result's;
\* in particular the currency of JSON-LD priceCurrency is not replaced by a
\* currency meta tag or by the symbol in a price element.
C10_FirstWriterWins ==
    (scraped.success /\ Generic(page)) =>
        LET j == jsonLd(Unset, page.jsonld)
            m == metaTags(Unset, page)
        IN  /\ SetsTitle(j) => scraped.title = j.title
            /\ SetsPrice(j) => scraped.price = j.price
            /\ SetsCurrency(j) => scraped.currency = j.currency
            /\ (~SetsTitle(j) /\ SetsTitle(m)) => scraped.title = m.title
            /\ (~SetsPrice(j) /\ j.price = Num(0) /\ SetsPrice(m)) => scraped.price = m.price
            /\ (~SetsCurrency(j) /\ SetsCurrency(m)) => scraped.currency = m.currency

\* The extraction state before each strategy of the chain runs on the page.
AfterJsonLd(doc) == [jsonLd(Blank("₺"), doc.jsonld) EXCEPT !.stop = FALSE]
AfterMeta(doc) == metaTags(AfterJsonLd(doc), doc)
AfterSelectors(doc) == selectors(AfterMeta(doc), doc)
AfterAmazon(doc) == amazon(AfterSelectors(doc), doc)
AfterTrendyol(doc) == trendyol(AfterAmazon(doc), doc)
MetaPrice(doc) == Or(doc.priceAmount, Or(doc.ogPriceAmount, doc.twitterData1))

\* The normalisation the claim describes: with both separators every period
\* is dropped and the last comma is the decimal point; with commas only the
\* comma is the decimal point; otherwise the text is parsed as it is.
ReplaceLast(text, a, b) == Reverse(ReplaceFirst(Reverse(text), a, b))
Normalized(text) ==
    LET clean == Keep(text, DigitSet \cup {".", ","}) IN
    IF Includes(clean, <<",">>) /\ Includes(clean, <<".">>)
    THEN parseFloat(ReplaceLast(Keep(clean, DigitSet \cup {","}), ",", "."))
    ELSE IF Includes(clean, <<",">>) THEN parseFloat(ReplaceLast(clean, ",", "."))
    ELSE parseFloat(clean)

\* C11: every strategy that parses a price text (meta tags, span.price, the
\* Amazon and Trendyol nodes, the final scan) gives it the value of the one
\* normalisation: "3.871,45" is 3871.45, "12,99" is 12.99, "1299" is 1299.
C11_OneNormalisation ==
    scraped.success =>
        /\ (IsZero(AfterJsonLd(page).price) /\ MetaPrice(page) # <<>>)
              => AfterMeta(page).price = Normalized(MetaPrice(page))
        /\ (IsZero(AfterMeta(page).price) /\ Trim(page.spanPrice) # <<>>)
              => AfterSelectors(page).price = Normalized(Trim(page.spanPrice))
        /\ (UrlIncludes(page.url, "amazon.com") /\ Trim(page.aOffscreen) # <<>>
                /\ ~Includes(page.aOffscreen, <<"-">>))
              => AfterAmazon(page).price = Normalized(Trim(page.aOffscreen))
        /\ (UrlIncludes(page.url, "trendyol.com") /\ IsZero(AfterAmazon(page).price)
                /\ Trim(page.prcDsc) # <<>>)
              => AfterTrendyol(page).price = Normalized(Trim(page.prcDsc))
        /\ (IsZero(AfterTrendyol(page).price) /\ Len(page.priceElems) = 1
                /\ Positive(Normalized(page.priceElems[1]))
                /\ ~Includes(page.priceElems[1], <<"%">>))
              => scraped.price = Normalized(page.priceElems[1])

\* The position of the first well-formed JSON-LD block of the page that holds
\* a Product entry whose offer has a positive price, and that entry.
Yields(item) ==
    /\ item.type \in {"Product", "http://schema.org/Product"}
    /\ item.hasOffers /\ item.price # <<>> /\ Positive(parseFloat(item.price))
Deciding(block) ==
    ~block.malformed /\ \E i \in 1..Len(block.items) : Yields(block.items[i])
DecidingBlocks(doc) == {b \in 1..Len(doc.jsonld) : Deciding(doc.jsonld[b])}
FirstDeciding(doc) ==
    CHOOSE b \in DecidingBlocks(doc) : \A c \in DecidingBlocks(doc) : b <= c
FirstYielding(block) ==
    block.items[CHOOSE i \in 1..Len(block.items) :
                    /\ Yields(block.items[i])
                    /\ \A k \in 1..(i - 1) : ~Yields(block.items[k])]
WellFormed(blocks) == SelectSeq(blocks, LAMBDA b : ~b.malformed)

C13_PriceNotNegative ==
    scraped.success => ~scraped.price.nan /\ scraped.price.milli >= 0

\* The elements the claim lets the scan take: no "%", a length within
\* [2, 20], and a positive number in the text.
Candidate(text) ==
    /\ ~Includes(Trim(text), <<"%">>)
    /\ Len(Trim(text)) >= 2 /\ Len(Trim(text)) <= 20
    /\ Positive(Normalized(text))
Candidates(doc) == {k \in 1..Len(doc.priceElems) : Candidate(doc.priceElems[k])}
FirstCandidate(doc) == CHOOSE k \in Candidates(doc) : \A n \in Candidates(doc) : k <= n

\* C14: when the price is still unset before the final scan, the scan takes
\* the first element in document order that has no "%", a text length within
\* [2, 20] and a positive number, sets the currency from the symbol in it, and
\* reads no element after it; without such an element the price stays 0.
C14_ScanTakesFirstCandidate ==
    (scraped.success /\ IsZero(AfterTrendyol(page).price)) =>
        IF Candidates(page) = {} THEN IsZero(scraped.price)
        ELSE
            LET k == FirstCandidate(page)
                text == Trim(page.priceElems[k])
            IN  /\ scraped.rawPrice = text
                /\ scraped.price = parsePriceText(text) /\ Positive(scraped.price)
                /\ scraped.currency = sniffCurrency(text, AfterTrendyol(page).currency)
                /\ scraped = scrapeProductData(
                                [page EXCEPT !.priceElems = SubSeq(page.priceElems, 1, k)])

\* "25% off" is skipped, the sibling "$19.99" is taken, "€3" is not read.
C14_Witness ==
    /\ scraped.success
    /\ Len(page.priceElems) = 3
    /\ Includes(page.priceElems[1], <<"%">>)
    /\ FirstCandidate(page) = 2
    /\ Candidate(page.priceElems[3])
    /\ scraped.price = Num(19990) /\ scraped.currency = "$"

\* The currencies the page itself names: JSON-LD priceCurrency, and the
\* currency meta tags.
Signals(doc) ==
    {c \in {jsonLd(Unset, doc.jsonld).currency, metaTags(Unset, doc).currency} : c # "unset"}

\* C15: on an Amazon or Trendyol page that names a currency in JSON-LD
\* priceCurrency or in a currency meta tag, the site-specific step leaves the
\* currency as it was, and the result carries a currency the page named
\* (where no price element is there to sniff a symbol from).
C15_OverrideKeepsSignal ==
    (scraped.success /\ ~Generic(page) /\ Signals(page) # {}) =>
        /\ AfterTrendyol(page).currency = AfterSelectors(page).currency
        /\ (page.spanPrice = <<>> /\ page.priceElems = <<>>)
              => scraped.currency \in Signals(page)

\* The number of price transitions downwards that the samples of a product
\* record.
RECURSIVE Drops(_)
Drops(h) ==
    IF Len(h) < 2 THEN 0
    ELSE (IF h[2] < h[1] THEN 1 ELSE 0) + Drops(Tail(h))

\* C16: also with the two sweeps (or a sweep and a manual check) on the same
\* product at once, each price transition downwards is notified at most once:
\* the sweeps together request no more dispatches for a product than its
\* samples record drops (while no removal has cleared the samples).
C16_OneNotificationPerTransition ==
    dl = IdleDelete =>
        \A id \in ProductIds :
            Dispatches("timer", id) + Dispatches("api", id) <= Drops(history[id])

\* A step that writes a price of the existing product id: a sample is added.
WritesPrice(id) == products[id].exists /\ Len(history'[id]) > Len(history[id])

\* C17: price writes of overlapping checks land in the order of their
\* fetches: no check writes the price it fetched once the price of a later
\* fetch of the same product has been written.
C17_WritesInFetchOrder ==
    [][\A id \in ProductIds : WritesPrice(id) => ~lastFetch[id].written]_vars

\* The sweep step that writes the price of the product it is at.
SweepWrites(s) ==
    /\ sweep[s].pc = "update"
    /\ WritesPrice(sweep[s].list[sweep[s].i].id)
    /\ sweep'[s] # sweep[s]

\* C18: the previous price a sweep compares with and reports is the stored
\* currentPrice of the product immediately before the sweep's write, also
\* when another check changed the product after the sweep loaded its list.
C18_OldPriceIsStoredPrice ==
    [][\A s \in Sweeps :
          SweepWrites(s) =>
              sweep[s].oldPrice = products[sweep[s].list[sweep[s].i].id].currentPrice]_vars

\* C19: while no removal has touched the store, every product has a sample,
\* its newest sample is its currentPrice, and the page's price change is the
\* difference to the sample before the newest one.
C19_NewestSampleIsCurrent ==
    dl = IdleDelete =>
        \A id \in ProductIds :
            products[id].exists =>
                LET h == history[id]
                    change == getPriceChange(id)
                IN  /\ h # <<>>
                    /\ Last(h) = products[id].currentPrice
                    /\ priceHistory(id)[1] = products[id].currentPrice
                    /\ Len(h) < 2 => change.null
                    /\ Len(h) >= 2 =>
                          /\ ~change.null
                          /\ change.previous = h[Len(h) - 1]
                          /\ change.diff = Last(h) - h[Len(h) - 1]

\* A manual check and a sweep both wrote product 1, and the price changed.
C19_Witness ==
    /\ dl = IdleDelete
    /\ products[1].exists
    /\ Len(history[1]) = 3
    /\ mc.response = "200"
    /\ \E s \in Sweeps : Persisted(s) # {}
    /\ getPriceChange(1).diff # 0

\* The price is a positive number or still unset (0).
SetOrUnset(st) == Positive(st.price) \/ IsZero(st.price)

\* C20: a strategy that finds no positive number in its price text leaves the
\* price unset (0) for the strategies below it: when JSON-LD gave no positive
\* price and a price meta tag holds one, or when nothing above the final scan
\* gave one and a price element holds one, the result's price is positive.
C20_UnparseableLeavesUnset ==
    scraped.success =>
        /\ SetOrUnset(AfterJsonLd(page)) /\ SetOrUnset(AfterMeta(page))
        /\ SetOrUnset(AfterSelectors(page)) /\ SetOrUnset(AfterTrendyol(page))
        /\ (Generic(page) /\ ~Positive(AfterJsonLd(page).price)
                /\ Positive(Normalized(MetaPrice(page))))
              => Positive(scraped.price)
        /\ (Generic(page) /\ ~Positive(AfterSelectors(page).price)
                /\ Candidates(page) # {})
              => Positive(scraped.price)

\* The session user u has no product id: the row is missing or another user's.
NotOwned(u, id) == ~(products[id].exists /\ products[id].userId = u)

\* C21: a manual check or a removal requested by a user for a product that
\* is not theirs, or does not exist, answers 404 and changes nothing: no
\* fetch is started or recorded, and no product row and no sample is written
\* or deleted.
C21_NotOwnedChangesNothing ==
    [][\A u \in Users, id \in ProductIds :
          NotOwned(u, id) =>
              /\ CheckStart(u, id) =>
                    /\ mc'.response = "404" /\ mc'.pc = "idle"
                    /\ StoreUnchanged /\ lastFetch' = lastFetch
              /\ DeleteStart(u, id) =>
                    /\ dl'.response = "404" /\ dl'.pc = "idle"
                    /\ StoreUnchanged]_vars

\* u2 asked for a check and for the removal of u1's product; both got 404
\* and the product and its samples are as they were.
C21_Witness ==
    /\ mc.response = "404" /\ mc.pc = "idle"
    /\ dl.response = "404" /\ dl.pc = "idle"
    /\ products[1].exists /\ products[1].userId = "u1"
    /\ products[1].currentPrice = MaxPrice
    /\ history[1] = <<MaxPrice>>

====
